---- MODULE Spec2Model ----
(***************************************************************************)
(* Model of the YouTube reply bot API (src/src/index.ts) and of the        *)
(* standalone merge script (src/scripts/mergeAndSortScores.ts).            *)
(*                                                                         *)
(* The two directories the program works on are the state:                 *)
(*   analysisDir  - aiResponseFinalScoreData/, one analysis_<stamp>.json   *)
(*                  per saved batch (the Batch Store)                      *)
(*   mergedDir    - mergedResults/, one merged_scores_<stamp>.json per     *)
(*                  merge run that wrote (the Snapshot Store)              *)
(* together with the requests waiting for the scoring call, the pending    *)
(* setTimeout callbacks, the wall clock (milliseconds) and the last HTTP   *)
(* response.                                                               *)
(*                                                                         *)
(* A comment carries id, c (text) and isTopComments. The fields t, l and r *)
(* are copied through by every operation and read by none (outside log     *)
(* lines), so they are left out. Scores are integers: JSON numbers are     *)
(* ordered like them, and the code only compares and subtracts them.       *)
(***************************************************************************)
EXTENDS Integers, Sequences, FiniteSets, Bags, TLC

VARIABLES
    clock,          \* Date.now() in milliseconds
    analysisDir,    \* file name -> AnalysisFile
    analysisOrder,  \* fs.readdirSync(AI_RESPONSE_DIR): the names, in directory order
    mergedDir,      \* file name -> outputData
    awaiting,       \* bag of /analyze-comments requests suspended at the await
    timers,         \* pending setTimeout callbacks, oldest first
    response,       \* the HTTP response the last step sent (NoResponse: none)
    request,        \* the /analyze-comments body the last step let pass validation (NoRequest: none)
    nSubmits,       \* number of /analyze-comments requests accepted so far
    nComments,      \* number of comments in the requests accepted so far
    nPurges,        \* number of /clear-analysis-data requests received so far
    nScriptRuns,    \* number of runs of the standalone script so far
    source,         \* history: merged file name -> the directory its run found
    nAppended,      \* history: analysis files written since the last purge
    nWritten,       \* history: merged files written since the last purge
    mergeFailed,    \* history: a call of the last merge run threw (listing, read, write)
    logged          \* what the last step's read-back of the latest merged file logged (NoLog: no read-back)

vars == <<clock, analysisDir, analysisOrder, mergedDir, awaiting, timers,
          response, request, nSubmits, nComments, nPurges, nScriptRuns, source, nAppended,
          nWritten, mergeFailed, logged>>

----------------------------------------------------------------------------
\* Bounds of the model.

MaxClock == 2
MaxSubmits == 2
MaxPurges == 2
MaxScriptRuns == 1
MaxItems == 2
MaxTotalItems == 2
MaxStoreFiles == 2
MaxStoreItems == 3

\* Program constants.

\* comments.length > 50 is rejected
MaxComments == 50
\* the score given to a comment with isTopComments === true
TopCommentScore == 101

\* The values the inputs are drawn from.
Ids == {1, 2}
Contents == {"X", "Y"}
AIScores == {40, 70}
BestCounts == {1}

Comment == [id : Ids, c : Contents, isTopComments : BOOLEAN]

\* The comments the requests of Spec are made of: a regular X, a regular Y, and
\* a top comment with the id of the one and the text of the other.
RequestComment ==
    {[id |-> 1, c |-> "X", isTopComments |-> FALSE],
     [id |-> 2, c |-> "Y", isTopComments |-> FALSE],
     [id |-> 1, c |-> "Y", isTopComments |-> TRUE]}

BatchesOf(S) == UNION {[1..n -> S] : n \in 0..MaxItems}

Batches == BatchesOf(RequestComment)

\* An AnalysisResponse: finalScore by id (the key is id.toString(), which is
\* one-to-one on integers), defined on some of the ids of the request. A key
\* that is no id of the request is stored and never looked up.
AnalysisResponses(ids, scores) == UNION {[D -> scores] : D \in SUBSET ids}

EmptyResponse == [i \in {} |-> 0]

----------------------------------------------------------------------------
\* Sequences.

Range(seq) == {seq[i] : i \in DOMAIN seq}

Max(S) == CHOOSE x \in S : \A y \in S : y <= x

Min(S) == CHOOSE x \in S : \A y \in S : x <= y

\* seq with x put in at position k (1 .. Len(seq) + 1)
InsertAt(seq, k, x) == SubSeq(seq, 1, k - 1) \o <<x>> \o SubSeq(seq, k, Len(seq))

RemoveAll(seq, S) == SelectSeq(seq, LAMBDA x : x \notin S)

\* f without the keys in S
Without(f, S) == [k \in DOMAIN f \ S |-> f[k]]

\* f with key k set to v (added or overwritten)
Put(f, k, v) == [x \in DOMAIN f \cup {k} |-> IF x = k THEN v ELSE f[x]]

----------------------------------------------------------------------------
\* File names. new Date().toISOString().replace(/[:.]/g, '-') is a fixed-width
\* string that is one-to-one in, and ordered like, the millisecond it is made of.

AnalysisFilename(ms) == <<"analysis_", ms>>

generateOutputFilename(ms) == <<"merged_scores_", ms>>

----------------------------------------------------------------------------
\* The merge, as index.ts and the script compute it.

\* Mutant of mergeCommentsWithScores: a comment without a score is kept with 0.
mergeCommentsDefaultZero(file) ==
    [i \in DOMAIN file.inputComments |->
        [id |-> file.inputComments[i].id,
         c |-> file.inputComments[i].c,
         isTopComments |-> file.inputComments[i].isTopComments,
         finalScore |-> IF file.inputComments[i].id \in DOMAIN file.analysisResults
                        THEN file.analysisResults[file.inputComments[i].id]
                        ELSE 0,
         analysisTimestamp |-> file.timestamp]]

\* Mutant of mergeCommentsWithScores: the comment is stamped with the time of
\* the run, not with the timestamp of its file.
mergeCommentsStampedAtRun(file) ==
    LET scored == SelectSeq(file.inputComments,
                            LAMBDA cm : cm.id \in DOMAIN file.analysisResults)
    IN  [i \in 1..Len(scored) |->
            [id |-> scored[i].id,
             c |-> scored[i].c,
             isTopComments |-> scored[i].isTopComments,
             finalScore |-> file.analysisResults[scored[i].id],
             analysisTimestamp |-> clock]]

\* for (const comment of inputComments) { scoreData = analysisResults[id]; if (scoreData) push }
mergeCommentsWithScores(file) ==
    LET scored == SelectSeq(file.inputComments,
                            LAMBDA cm : cm.id \in DOMAIN file.analysisResults)
    IN  [i \in 1..Len(scored) |->
            [id |-> scored[i].id,
             c |-> scored[i].c,
             isTopComments |-> scored[i].isTopComments,
             finalScore |-> file.analysisResults[scored[i].id],
             analysisTimestamp |-> file.timestamp]]

\* comment.id.toString() throws a TypeError on an entry that has no id. The
\* server writes no such entry (validateComments); a file put into the
\* directory by other means can hold one.
HasId(comment) == "id" \in DOMAIN comment

NoIdComment == [c |-> "Y", isTopComments |-> FALSE]

\* The place of the first comment of a file at which the loop throws, one past
\* the last comment when it does not throw.
FirstThrow(file) ==
    Min({i \in DOMAIN file.inputComments : ~HasId(file.inputComments[i])}
            \cup {Len(file.inputComments) + 1})

Throws(file) == FirstThrow(file) <= Len(file.inputComments)

\* What the loop of index.ts over one file has pushed to allMergedComments when
\* it ends or throws: the catch of the file loop takes nothing back.
PushedComments(file) ==
    mergeCommentsWithScores(
        [file EXCEPT !.inputComments = SubSeq(@, 1, FirstThrow(file) - 1)])

\* allMergedComments after the loop over the files that were read and parsed
RECURSIVE AllMergedComments(_)
AllMergedComments(files) ==
    IF files = <<>> THEN <<>>
    ELSE PushedComments(Head(files)) \o AllMergedComments(Tail(files))

\* Mutant of UniqueSet: >= for >, so that a tie replaces the earlier comment.
UniqueSetOnTie(unique, comment) ==
    IF \E i \in DOMAIN unique : unique[i].c = comment.c
    THEN LET i == CHOOSE j \in DOMAIN unique : unique[j].c = comment.c
         IN  IF comment.finalScore >= unique[i].finalScore
             THEN [unique EXCEPT ![i] = comment]
             ELSE unique
    ELSE Append(unique, comment)

\* Mutant of UniqueSet: a replaced key is deleted and set anew, so that it
\* moves behind the keys set since.
UniqueSetReinsert(unique, comment) ==
    IF \E i \in DOMAIN unique : unique[i].c = comment.c
    THEN IF comment.finalScore
              > unique[CHOOSE j \in DOMAIN unique : unique[j].c = comment.c].finalScore
         THEN Append(SelectSeq(unique, LAMBDA u : u.c # comment.c), comment)
         ELSE unique
    ELSE Append(unique, comment)

\* One turn of the loop over allMergedComments: uniqueComments is a Map, kept
\* here as the sequence of its values in insertion order. Map.set on a key
\* that is present replaces the value and keeps the key's place.
UniqueSet(unique, comment) ==
    IF \E i \in DOMAIN unique : unique[i].c = comment.c
    THEN LET i == CHOOSE j \in DOMAIN unique : unique[j].c = comment.c
         IN  IF comment.finalScore > unique[i].finalScore
             THEN [unique EXCEPT ![i] = comment]
             ELSE unique
    ELSE Append(unique, comment)

RECURSIVE UniqueComments(_, _)
UniqueComments(unique, all) ==
    IF all = <<>> THEN unique
    ELSE UniqueComments(UniqueSet(unique, Head(all)), Tail(all))

\* Array.from(uniqueComments.values())
deduplicatedComments(all) == UniqueComments(<<>>, all)

\* Mutant of InsertByScore: a.finalScore - b.finalScore, the ascending order.
InsertByScoreAscending(sorted, x) ==
    LET k == Cardinality({i \in DOMAIN sorted : sorted[i].finalScore <= x.finalScore})
    IN  InsertAt(sorted, k + 1, x)

\* sorted is in descending order; x goes behind every element that does not
\* compare after it (b.finalScore - a.finalScore <= 0 keeps a before b).
InsertByScore(sorted, x) ==
    LET k == Cardinality({i \in DOMAIN sorted : sorted[i].finalScore >= x.finalScore})
    IN  InsertAt(sorted, k + 1, x)

RECURSIVE SortInto(_, _)
SortInto(sorted, rest) ==
    IF rest = <<>> THEN sorted
    ELSE SortInto(InsertByScore(sorted, Head(rest)), Tail(rest))

\* comments.sort((a, b) => b.finalScore - a.finalScore): Array.prototype.sort
\* is stable, so equal scores keep their order.
sortCommentsByScore(comments) == SortInto(<<>>, comments)

\* sortedComments of index.ts
ServerSorted(files) ==
    sortCommentsByScore(deduplicatedComments(AllMergedComments(files)))

\* sortedComments of the script, which does not remove duplicates
ScriptSorted(files) == sortCommentsByScore(AllMergedComments(files))

\* x || 0
OrZero(x) == IF x = 0 THEN 0 ELSE x

\* outputData; sortedComments[0]?.finalScore || 0 is 0 when there is no comment
OutputData(sorted, processedFiles, generatedAt) ==
    [metadata |->
        [generatedAt |-> generatedAt,
         totalComments |-> Len(sorted),
         processedFiles |-> processedFiles,
         scoreRange |-> [highest |-> IF sorted = <<>> THEN 0
                                     ELSE OrZero(sorted[1].finalScore),
                         lowest |-> IF sorted = <<>> THEN 0
                                    ELSE OrZero(sorted[Len(sorted)].finalScore)]],
     comments |-> sorted]

\* Mutant of NothingToMerge: the run goes on without a comment.
NothingToMergeNever(allMergedComments) == FALSE

\* if (allMergedComments.length === 0) return
NothingToMerge(allMergedComments) == allMergedComments = <<>>

----------------------------------------------------------------------------
\* The initial state: the server has started, both directories exist and are
\* empty, nothing is in flight.

EmptyDir == [name \in {} |-> name]

NoResponse == [route |-> "none", status |-> 0, body |-> "none"]

NoRequest == [none |-> TRUE]

NoLog == [kind |-> "none"]

Init ==
    /\ clock = 0
    /\ analysisDir = EmptyDir
    /\ analysisOrder = <<>>
    /\ mergedDir = EmptyDir
    /\ awaiting = EmptyBag
    /\ timers = <<>>
    /\ response = NoResponse
    /\ request = NoRequest
    /\ nSubmits = 0
    /\ nComments = 0
    /\ nPurges = 0
    /\ nScriptRuns = 0
    /\ source = EmptyDir
    /\ nAppended = 0
    /\ nWritten = 0
    /\ mergeFailed = FALSE
    /\ logged = NoLog

\* Time passes between two events of the process.
Tick ==
    /\ clock < MaxClock
    /\ clock' = clock + 1
    /\ response' = NoResponse
    /\ request' = NoRequest
    /\ logged' = NoLog
    /\ UNCHANGED <<analysisDir, analysisOrder, mergedDir, awaiting, timers,
                   nSubmits, nComments, nPurges, nScriptRuns, source, nAppended,
                   nWritten, mergeFailed>>

\* The milliseconds that may pass between two new Date() of one handler.
Elapse == {d \in {0, 1} : clock + d <= MaxClock}

----------------------------------------------------------------------------
\* POST /analyze-comments

\* req.body.comments as JSON: an array of entries, or a value that is no array
ArrayOf(entries) == [array |-> entries]

NotAnArray == [object |-> "comments"]

\* Mutant of validateComments: the test comments.length === 0 is left out.
validateCommentsOrEmpty(comments) ==
    /\ "array" \in DOMAIN comments
    /\ Len(comments.array) <= MaxComments
    /\ \A i \in DOMAIN comments.array : HasId(comments.array[i])

\* Array.isArray, the length, and the shape of every entry: of the typeof
\* tests an entry passes or fails, the one on id is kept.
validateComments(comments) ==
    /\ "array" \in DOMAIN comments
    /\ Len(comments.array) # 0
    /\ Len(comments.array) <= MaxComments
    /\ \A i \in DOMAIN comments.array : HasId(comments.array[i])

topComments(comments) == SelectSeq(comments, LAMBDA cm : cm.isTopComments = TRUE)

regularComments(comments) == SelectSeq(comments, LAMBDA cm : ~cm.isTopComments)

\* parsedResponse after the loop over topComments
TopCommentScores(comments) ==
    [i \in {cm.id : cm \in Range(topComments(comments))} |-> TopCommentScore]

\* Object.assign(target, src): every key of src is set in target
ObjectAssign(target, src) ==
    [k \in DOMAIN target \cup DOMAIN src |->
        IF k \in DOMAIN src THEN src[k] ELSE target[k]]

\* parsedResponse once the scoring call has returned aiResponse
ParsedResponse(comments, aiResponse) ==
    ObjectAssign(TopCommentScores(comments), aiResponse)

\* fs.writeFileSync(filepath, ...) into AI_RESPONSE_DIR: a new name takes some
\* place in the directory order, a name that exists keeps its place and its
\* file is replaced.
WriteAnalysisFile(name, file) ==
    /\ analysisDir' = Put(analysisDir, name, file)
    /\ IF name \in DOMAIN analysisDir
       THEN analysisOrder' = analysisOrder
       ELSE \E k \in 1..(Len(analysisOrder) + 1) :
                analysisOrder' = InsertAt(analysisOrder, k, name)
    /\ nAppended' = nAppended + 1

\* Mutant of SaveAndSchedule: the timer is set only when the write succeeded.
SaveAndScheduleWhenWritten(comments, bestCommentsCount, parsedResponse) ==
    \E d \in Elapse, written \in BOOLEAN :
        /\ clock' = clock + d
        /\ IF written
           THEN /\ WriteAnalysisFile(AnalysisFilename(clock),
                                     [timestamp |-> clock + d,
                                      inputComments |-> comments,
                                      bestCommentsCount |-> bestCommentsCount,
                                      analysisResults |-> parsedResponse])
                /\ timers' = Append(timers, [due |-> clock' + 1,
                                             bestCommentsCount |-> bestCommentsCount])
           ELSE UNCHANGED <<analysisDir, analysisOrder, nAppended, timers>>
        /\ response' = [route |-> "analyze", status |-> 200, body |-> parsedResponse]

\* Mutant of SaveAndSchedule: a failed write is answered with the error.
SaveAndScheduleFailsLoud(comments, bestCommentsCount, parsedResponse) ==
    \E d \in Elapse, written \in BOOLEAN :
        /\ clock' = clock + d
        /\ IF written
           THEN WriteAnalysisFile(AnalysisFilename(clock),
                                  [timestamp |-> clock + d,
                                   inputComments |-> comments,
                                   bestCommentsCount |-> bestCommentsCount,
                                   analysisResults |-> parsedResponse])
           ELSE UNCHANGED <<analysisDir, analysisOrder, nAppended>>
        /\ timers' = Append(timers, [due |-> clock' + 1,
                                     bestCommentsCount |-> bestCommentsCount])
        /\ response' = IF written
                       THEN [route |-> "analyze", status |-> 200, body |-> parsedResponse]
                       ELSE [route |-> "analyze", status |-> 500,
                             body |-> "Failed to analyze comments"]

\* The tail of the handler: save the response, schedule the merge, answer.
\* A failed write is caught and logged; the timer is set and the scores are
\* sent all the same.
SaveAndSchedule(comments, bestCommentsCount, parsedResponse) ==
    \E d \in Elapse, written \in BOOLEAN :
        LET filename == AnalysisFilename(clock)
            responseData == [timestamp |-> clock + d,
                             inputComments |-> comments,
                             bestCommentsCount |-> bestCommentsCount,
                             analysisResults |-> parsedResponse]
        IN  /\ clock' = clock + d
            /\ IF written
               THEN WriteAnalysisFile(filename, responseData)
               ELSE UNCHANGED <<analysisDir, analysisOrder, nAppended>>
            /\ timers' = Append(timers, [due |-> clock' + 1,
                                         bestCommentsCount |-> bestCommentsCount])
            /\ response' = [route |-> "analyze", status |-> 200,
                            body |-> parsedResponse]

\* The model takes no more than MaxTotalItems comments in all.
Accepted(comments) ==
    /\ nComments + Len(comments) <= MaxTotalItems
    /\ nComments' = nComments + Len(comments)

IdsOf(comments) == {cm.id : cm \in Range(comments)}

BadRequest(error) == [route |-> "analyze", status |-> 400, body |-> error]

\* The body of a request: comments, whether systemMessage is a string that is
\* not empty, and bestCommentsCount (0: missing or no positive number).
Request(comments, systemMessageOk, bestCommentsCount) ==
    [comments |-> comments,
     systemMessageOk |-> systemMessageOk,
     bestCommentsCount |-> bestCommentsCount]

\* comments.length > 50
TooManyComments ==
    [i \in 1..(MaxComments + 1) |-> [id |-> 1, c |-> "X", isTopComments |-> FALSE]]

\* The requests with a fault that the model sends: each fault alone, and all
\* of them at once.
FaultyRequests ==
    {Request(NotAnArray, TRUE, 1),
     Request(ArrayOf(<<>>), TRUE, 1),
     Request(ArrayOf(TooManyComments), TRUE, 1),
     Request(ArrayOf(<<NoIdComment>>), TRUE, 1),
     Request(ArrayOf(<<[id |-> 1, c |-> "X", isTopComments |-> FALSE]>>), FALSE, 1),
     Request(ArrayOf(<<[id |-> 1, c |-> "X", isTopComments |-> FALSE]>>), TRUE, 0),
     Request(ArrayOf(<<>>), FALSE, 0)}

\* A request that fails one of the three validations is answered 400: the
\* comments first, then systemMessage, then bestCommentsCount.
RejectRequest ==
    /\ request' = NoRequest
    /\ logged' = NoLog
    /\ \E req \in FaultyRequests :
        /\ \/ /\ ~validateComments(req.comments)
              /\ response' = BadRequest("Invalid comments format")
           \/ /\ validateComments(req.comments)
              /\ ~req.systemMessageOk \/ req.bestCommentsCount < 1
              /\ response' = BadRequest(IF ~req.systemMessageOk
                                        THEN "systemMessage is required"
                                        ELSE "bestCommentsCount is required")
    /\ UNCHANGED <<clock, analysisDir, analysisOrder, mergedDir, awaiting, timers,
                   nSubmits, nComments, nPurges, nScriptRuns, source, nAppended,
                   nWritten, mergeFailed>>

\* A valid request with regular comments calls the scorer and waits.
AwaitScores ==
    /\ nSubmits < MaxSubmits
    /\ nSubmits' = nSubmits + 1
    /\ \E comments \in Batches, bestCommentsCount \in BestCounts :
        /\ validateComments(ArrayOf(comments))
        /\ Accepted(comments)
        /\ regularComments(comments) # <<>>
        /\ request' = Request(ArrayOf(comments), TRUE, bestCommentsCount)
        /\ logged' = NoLog
        /\ awaiting' = awaiting (+) SetToBag({[comments |-> comments,
                                              bestCommentsCount |-> bestCommentsCount]})
    /\ response' = NoResponse
    /\ UNCHANGED <<clock, analysisDir, analysisOrder, mergedDir, timers, nPurges,
                   nScriptRuns, source, nAppended, nWritten, mergeFailed>>

\* A valid request of top comments only never waits: it is saved at once.
AnalyzeTopOnly ==
    /\ nSubmits < MaxSubmits
    /\ nSubmits' = nSubmits + 1
    /\ \E comments \in Batches, bestCommentsCount \in BestCounts :
        /\ validateComments(ArrayOf(comments))
        /\ Accepted(comments)
        /\ regularComments(comments) = <<>>
        /\ request' = Request(ArrayOf(comments), TRUE, bestCommentsCount)
        /\ logged' = NoLog
        /\ SaveAndSchedule(comments, bestCommentsCount, TopCommentScores(comments))
    /\ UNCHANGED <<mergedDir, awaiting, nPurges, nScriptRuns, source, nWritten, mergeFailed>>

\* Mutant of ScoringFails: the scores of the top comments, which need no
\* scoring call, are saved before the error is answered.
ScoringFailsSavesTop ==
    /\ \E req \in BagToSet(awaiting), error \in {"Failed to analyze comments",
                                                "Failed to parse AI response"} :
        /\ awaiting' = awaiting (-) SetToBag({req})
        /\ response' = [route |-> "analyze", status |-> 500, body |-> error]
        /\ IF topComments(req.comments) # <<>>
           THEN WriteAnalysisFile(AnalysisFilename(clock),
                                  [timestamp |-> clock,
                                   inputComments |-> req.comments,
                                   bestCommentsCount |-> req.bestCommentsCount,
                                   analysisResults |-> TopCommentScores(req.comments)])
           ELSE UNCHANGED <<analysisDir, analysisOrder, nAppended>>
    /\ request' = NoRequest
    /\ logged' = NoLog
    /\ UNCHANGED <<clock, mergedDir, timers, nSubmits, nComments, nPurges,
                   nScriptRuns, source, nWritten, mergeFailed>>

\* The scoring call of a waiting request throws, or its text is not JSON.
ScoringFails ==
    /\ \E req \in BagToSet(awaiting), error \in {"Failed to analyze comments",
                                                "Failed to parse AI response"} :
        /\ awaiting' = awaiting (-) SetToBag({req})
        /\ response' = [route |-> "analyze", status |-> 500, body |-> error]
    /\ request' = NoRequest
    /\ logged' = NoLog
    /\ UNCHANGED <<clock, analysisDir, analysisOrder, mergedDir, timers, nSubmits,
                   nComments, nPurges, nScriptRuns, source, nAppended, nWritten, mergeFailed>>

\* The scoring call of a waiting request returns a score object.
ScoringReturns ==
    /\ \E req \in BagToSet(awaiting) :
       \E aiResponse \in AnalysisResponses(IdsOf(req.comments), AIScores) :
        /\ awaiting' = awaiting (-) SetToBag({req})
        /\ SaveAndSchedule(req.comments, req.bestCommentsCount,
                           ParsedResponse(req.comments, aiResponse))
    /\ request' = NoRequest
    /\ logged' = NoLog
    /\ UNCHANGED <<mergedDir, nSubmits, nComments, nPurges, nScriptRuns, source,
                   nWritten, mergeFailed>>

----------------------------------------------------------------------------
\* The merge run of the server and of the script.

Reverse(seq) == [i \in DOMAIN seq |-> seq[Len(seq) + 1 - i]]

\* Mutant of ReadDir: the order of the listing changes from one call to another.
ReadDirUnstable(order) == IF clock % 2 = 0 THEN order ELSE Reverse(order)

\* Mutant of ReadDir: the listing misses the last entry of the directory.
ReadDirButLast(order) == SubSeq(order, 1, Len(order) - 1)

\* fs.readdirSync(AI_RESPONSE_DIR).filter(file => file.endsWith('.json')): every
\* file of the directory is one the server wrote, in the directory's order.
ReadDir(order) == order

\* The files of the listing, as stored.
Listing == [i \in DOMAIN ReadDir(analysisOrder) |-> analysisDir[ReadDir(analysisOrder)[i]]]

\* The files of a listing that were read and parsed, in the listing's order.
RECURSIVE ReadFiles(_, _, _)
ReadFiles(listing, read, i) ==
    IF i > Len(listing) THEN <<>>
    ELSE (IF i \in read THEN <<listing[i]>> ELSE <<>>) \o ReadFiles(listing, read, i + 1)

\* The number of the latest run that has a file in MERGED_RESULTS_DIR (0: none).
LastRun == Max({0} \cup {source[name].run : name \in DOMAIN source})

\* fs.writeFileSync(outputPath, ...) into MERGED_RESULTS_DIR
WriteMergedFile(name, outputData, by, read) ==
    /\ mergedDir' = Put(mergedDir, name, outputData)
    /\ source' = Put(source, name, [by |-> by, files |-> analysisDir,
                                    order |-> analysisOrder, read |-> read,
                                    run |-> LastRun + 1])
    /\ nWritten' = nWritten + 1

\* The script calls mergeCommentsWithScores outside any try: a file on which
\* it throws ends main with the exception, before anything is written.
ScriptThrows(by, files) == by = "script" /\ \E i \in DOMAIN files : Throws(files[i])

\* Mutant of ProcessedFiles: every file read is counted.
ProcessedFilesRead(files) == Len(files)

\* processedFiles: the files whose loop ran to its end
ProcessedFiles(files) == Cardinality({i \in DOMAIN files : ~Throws(files[i])})

\* One run over the directory as it is now, by the server or by the script,
\* which differ in the ranking. The run ends without a file when the listing
\* fails or is empty, when no comment has a score, and when the write fails; a
\* file that cannot be read or parsed is left out and the run goes on.
MergeRun(by) ==
    \/ \* readdirSync throws
       /\ mergeFailed' = TRUE
       /\ UNCHANGED <<clock, mergedDir, source, nWritten>>
    \/ \* there is no file
       /\ Listing = <<>>
       /\ mergeFailed' = FALSE
       /\ UNCHANGED <<clock, mergedDir, source, nWritten>>
    \/ /\ Listing # <<>>
       /\ \E read \in SUBSET DOMAIN Listing :
            LET files == ReadFiles(Listing, read, 1)
                sorted == IF by = "server" THEN ServerSorted(files)
                                           ELSE ScriptSorted(files)
                thrown == \/ read # DOMAIN Listing
                          \/ \E i \in DOMAIN files : Throws(files[i])
            IN  IF ScriptThrows(by, files) \/ NothingToMerge(AllMergedComments(files))
                THEN /\ mergeFailed' = thrown
                     /\ UNCHANGED <<clock, mergedDir, source, nWritten>>
                ELSE \E d \in Elapse, written \in BOOLEAN :
                        /\ clock' = clock + d
                        /\ mergeFailed' = (thrown \/ ~written)
                        /\ IF written
                           THEN WriteMergedFile(
                                    generateOutputFilename(clock + d),
                                    OutputData(sorted, ProcessedFiles(files), clock),
                                    by, {ReadDir(analysisOrder)[i] : i \in read})
                           ELSE UNCHANGED <<mergedDir, source, nWritten>>

\* function mergeAndSortResults of index.ts
mergeAndSortResults == MergeRun("server")

\* names.sort(): the names share their prefix and their width, so that they
\* are ordered as their milliseconds are.
RECURSIVE SortNames(_)
SortNames(names) ==
    IF names = {} THEN <<>>
    ELSE LET first == CHOOSE x \in names : \A y \in names : x[2] <= y[2]
         IN  <<first>> \o SortNames(names \ {first})

\* Mutant of mergedFiles: the sorted names are not reversed.
mergedFilesOldestFirst(dir) == SortNames(DOMAIN dir)

\* fs.readdirSync(MERGED_RESULTS_DIR).filter(...).sort().reverse()
mergedFiles(dir) == Reverse(SortNames(DOMAIN dir))

\* array.slice(0, count) for a count of 1 or more
slice(array, count) == SubSeq(array, 1, Min({count, Len(array)}))

\* The directory is empty: the callback logs nothing and ends.
NotFound == [kind |-> "notFound"]

\* readdirSync, readFileSync or JSON.parse threw: the catch logs a warning.
CouldNotRead == [kind |-> "warn"]

\* What the read-back of the callback logs over the directory dir.
BestCommentsLogs(dir, bestCommentsCount) ==
    {CouldNotRead} \cup
    {IF mergedFiles(dir) = <<>>
     THEN NotFound
     ELSE LET latestMergedFile == mergedFiles(dir)[1]
          IN  [kind |-> "best",
               bestCommentsCount |-> bestCommentsCount,
               latestMergedFile |-> latestMergedFile,
               bestComments |-> slice(dir[latestMergedFile].comments,
                                      bestCommentsCount)]}

\* Mutant of TimerFires: a run in which a call threw is set to run again.
TimerFiresRetries ==
    /\ timers # <<>>
    /\ Head(timers).due <= clock
    /\ mergeAndSortResults
    /\ timers' = IF mergeFailed'
                 THEN Append(Tail(timers), [due |-> clock' + 1,
                                            bestCommentsCount |-> Head(timers).bestCommentsCount])
                 ELSE Tail(timers)
    /\ logged' \in BestCommentsLogs(mergedDir', Head(timers).bestCommentsCount)
    /\ response' = NoResponse
    /\ request' = NoRequest
    /\ UNCHANGED <<analysisDir, analysisOrder, awaiting, nSubmits, nComments,
                   nPurges, nScriptRuns, nAppended>>

\* The setTimeout callback of /analyze-comments: the merge, then the latest
\* merged file is read back and its best comments are logged.
TimerFires ==
    /\ timers # <<>>
    /\ Head(timers).due <= clock
    /\ timers' = Tail(timers)
    /\ mergeAndSortResults
    /\ logged' \in BestCommentsLogs(mergedDir', Head(timers).bestCommentsCount)
    /\ response' = NoResponse
    /\ request' = NoRequest
    /\ UNCHANGED <<analysisDir, analysisOrder, awaiting, nSubmits, nComments,
                   nPurges, nScriptRuns, nAppended>>

\* Mutant of main: the files folded into a snapshot are removed.
mainConsumes ==
    /\ nScriptRuns < MaxScriptRuns
    /\ nScriptRuns' = nScriptRuns + 1
    /\ MergeRun("script")
    /\ analysisDir' = IF nWritten' > nWritten THEN EmptyDir ELSE analysisDir
    /\ analysisOrder' = IF nWritten' > nWritten THEN <<>> ELSE analysisOrder
    /\ response' = NoResponse
    /\ request' = NoRequest
    /\ logged' = NoLog
    /\ UNCHANGED <<awaiting, timers, nSubmits, nComments, nPurges, nAppended>>

\* function main of scripts/mergeAndSortScores.ts, run from the command line
main ==
    /\ nScriptRuns < MaxScriptRuns
    /\ nScriptRuns' = nScriptRuns + 1
    /\ MergeRun("script")
    /\ response' = NoResponse
    /\ request' = NoRequest
    /\ logged' = NoLog
    /\ UNCHANGED <<analysisDir, analysisOrder, awaiting, timers, nSubmits,
                   nComments, nPurges, nAppended>>

----------------------------------------------------------------------------
\* POST /clear-analysis-data

\* The names of a directory listing left after unlinkSync succeeded on the
\* first k of them.
Unlinked(order, k) == {order[i] : i \in 1..k}

ClearResponse(clearedAnalysisFiles, clearedMergedFiles) ==
    [route |-> "clear", status |-> 200,
     body |-> [clearedAnalysisFiles |-> clearedAnalysisFiles,
               clearedMergedFiles |-> clearedMergedFiles]]

\* The catch of the handler: error.message names the call that threw, scandir
\* (readdirSync) or unlink (unlinkSync); no count is sent.
ClearFailed(details) ==
    [route |-> "clear", status |-> 500,
     body |-> [error |-> "Failed to clear files", details |-> details]]

\* Mutant of ClearSucceeds: the counts are taken after the files are gone.
ClearSucceedsCountsLate ==
    /\ analysisDir' = EmptyDir
    /\ analysisOrder' = <<>>
    /\ mergedDir' = EmptyDir
    /\ source' = EmptyDir
    /\ nAppended' = 0
    /\ nWritten' = 0
    /\ response' = ClearResponse(Len(analysisOrder'), Cardinality(DOMAIN mergedDir'))

\* Both loops run to their end.
ClearSucceeds ==
    /\ analysisDir' = EmptyDir
    /\ analysisOrder' = <<>>
    /\ mergedDir' = EmptyDir
    /\ source' = EmptyDir
    /\ nAppended' = 0
    /\ nWritten' = 0
    /\ response' = ClearResponse(Len(analysisOrder), Cardinality(DOMAIN mergedDir))

\* Mutant of UnlinkThrows: unlinkSync is also called, and throws, once past
\* the last file of the listing.
UnlinkThrowsPastEnd(k, n) == k <= n

\* unlinkSync throws on the file after the first k of a listing of n files.
UnlinkThrows(k, n) == k < n

\* The first loop throws after k files of AI_RESPONSE_DIR are gone: readdirSync
\* throws (no file is gone), or the unlinkSync of the next file does. The catch
\* answers 500.
ClearFailsInAnalysisDir ==
    \E k \in 0..Len(analysisOrder), details \in {"scandir", "unlink"} :
        /\ details = "scandir" => k = 0
        /\ details = "unlink" => UnlinkThrows(k, Len(analysisOrder))
        /\ analysisDir' = Without(analysisDir, Unlinked(analysisOrder, k))
        /\ analysisOrder' = RemoveAll(analysisOrder, Unlinked(analysisOrder, k))
        /\ nAppended' = nAppended - k
        /\ UNCHANGED <<mergedDir, source, nWritten>>
        /\ response' = ClearFailed(details)

\* The first loop is done; the second throws after the files named in gone (in
\* that directory's order, which nothing else reads) are gone: readdirSync
\* throws, or the unlinkSync of a file that is left does.
ClearFailsInMergedDir ==
    \E gone \in SUBSET DOMAIN mergedDir, details \in {"scandir", "unlink"} :
        /\ details = "scandir" => gone = {}
        /\ details = "unlink" =>
              UnlinkThrows(Cardinality(gone), Cardinality(DOMAIN mergedDir))
        /\ analysisDir' = EmptyDir
        /\ analysisOrder' = <<>>
        /\ nAppended' = 0
        /\ mergedDir' = Without(mergedDir, gone)
        /\ source' = Without(source, gone)
        /\ nWritten' = nWritten - Cardinality(gone)
        /\ response' = ClearFailed(details)

clearAnalysisData ==
    /\ nPurges < MaxPurges
    /\ nPurges' = nPurges + 1
    /\ request' = NoRequest
    /\ logged' = NoLog
    /\ \/ ClearSucceeds
       \/ ClearFailsInAnalysisDir
       \/ ClearFailsInMergedDir
    /\ UNCHANGED <<clock, awaiting, timers, nSubmits, nComments, nScriptRuns,
                   mergeFailed>>

----------------------------------------------------------------------------

Next ==
    \/ Tick
    \/ RejectRequest
    \/ AwaitScores
    \/ AnalyzeTopOnly
    \/ ScoringFails
    \/ ScoringReturns
    \/ TimerFires
    \/ clearAnalysisData

\* The server.
Spec == Init /\ [][Next]_vars

\* The server under the scheduling of the event loop: time passes, and a
\* callback of setTimeout that is due is run. The window of the model ends at
\* MaxClock, so that a request is saved before the last millisecond of the
\* window, where its callback falls due; the window holds one purge.
CallbackInWindow == \A i \in DOMAIN timers' : timers'[i].due <= MaxClock

LiveNext ==
    \/ Tick
    \/ RejectRequest
    \/ AwaitScores
    \/ AnalyzeTopOnly /\ CallbackInWindow
    \/ ScoringFails
    \/ ScoringReturns /\ CallbackInWindow
    \/ TimerFires
    \/ clearAnalysisData /\ nPurges = 0

LiveSpec ==
    /\ Init
    /\ [][LiveNext]_vars
    /\ WF_vars(Tick)
    /\ WF_vars(TimerFires)

----------------------------------------------------------------------------
\* One merge run over a store that the server has filled: the files that
\* requests of any comments can have left, and then either the server's timer
\* fires or the script is run.

\* The scorer is called only when there is a regular comment.
AnalysisResponsesFor(comments) ==
    IF regularComments(comments) = <<>>
    THEN {EmptyResponse}
    ELSE AnalysisResponses(IdsOf(comments), AIScores)

\* The files a request with these comments can leave at millisecond ms.
SavedFiles(comments, ms) ==
    {[timestamp |-> ms,
      inputComments |-> comments,
      bestCommentsCount |-> bestCommentsCount,
      analysisResults |-> ParsedResponse(comments, aiResponse)] :
        aiResponse \in AnalysisResponsesFor(comments),
        bestCommentsCount \in BestCounts}

StoreBatches == {b \in BatchesOf(Comment) : validateComments(ArrayOf(b))}

\* Stores of n files, saved at milliseconds 0 .. n - 1.
Orders(S) ==
    {p \in [1..Cardinality(S) -> S] : \A i, j \in DOMAIN p : p[i] = p[j] => i = j}

RECURSIVE SumLen(_, _)
SumLen(st, names) ==
    IF names = {} THEN 0
    ELSE LET name == CHOOSE x \in names : TRUE
         IN  Len(st[name].inputComments) + SumLen(st, names \ {name})

MergeInit ==
    \E n \in 1..MaxStoreFiles, by \in {"server", "script"} :
      \E batches \in [0..(n - 1) -> StoreBatches] :
        /\ SumLen([ms \in 0..(n - 1) |-> [inputComments |-> batches[ms]]],
                  0..(n - 1)) <= MaxStoreItems
        /\ analysisDir \in
              {st \in [{AnalysisFilename(ms) : ms \in 0..(n - 1)} ->
                          UNION {SavedFiles(batches[ms], ms) : ms \in 0..(n - 1)}] :
                  \A ms \in 0..(n - 1) :
                      st[AnalysisFilename(ms)] \in SavedFiles(batches[ms], ms)}
        /\ analysisOrder \in Orders({AnalysisFilename(ms) : ms \in 0..(n - 1)})
        /\ clock = n - 1
        /\ timers = IF by = "server"
                    THEN <<[due |-> n, bestCommentsCount |-> 1]>>
                    ELSE <<>>
        /\ mergedDir = EmptyDir
        /\ awaiting = EmptyBag
        /\ response = NoResponse
        /\ request = NoRequest
        /\ nSubmits = n
        /\ nComments = 0
        /\ nPurges = 0
        /\ nScriptRuns = IF by = "script" THEN 0 ELSE MaxScriptRuns
        /\ source = EmptyDir
        /\ nAppended = n
        /\ nWritten = 0
        /\ mergeFailed = FALSE
        /\ logged = NoLog

MergeNext ==
    \/ Tick
    \/ TimerFires
    \/ main

MergeSpec == MergeInit /\ [][MergeNext]_vars

----------------------------------------------------------------------------
\* One merge run over a store that holds files the server did not write: a
\* comment entry of such a file can lack its id.

StoredComment ==
    {[id |-> 1, c |-> "X", isTopComments |-> FALSE],
     [id |-> 2, c |-> "Y", isTopComments |-> FALSE],
     NoIdComment}

\* The files of the store at millisecond ms: one or more comments, a score for
\* each id.
StoredFiles(ms) ==
    {[timestamp |-> ms,
      inputComments |-> comments,
      bestCommentsCount |-> 1,
      analysisResults |-> scores] :
        comments \in BatchesOf(StoredComment) \ {<<>>},
        scores \in [Ids -> AIScores]}

\* The callbacks that wait over a store of n files: of the last request, or of
\* the last two, each with the bestCommentsCount of its request.
StoreBestCounts == {1, 2}

StoreTimers(n) ==
    LET Timer == {[due |-> n, bestCommentsCount |-> bestCommentsCount] :
                    bestCommentsCount \in StoreBestCounts}
    IN  {<<t>> : t \in Timer} \cup {<<t, u>> : t \in Timer, u \in Timer}

CorruptInit ==
    \E n \in 1..MaxStoreFiles, by \in {"server", "script"} :
        /\ analysisDir \in
              {st \in [{AnalysisFilename(ms) : ms \in 0..(n - 1)} ->
                          UNION {StoredFiles(ms) : ms \in 0..(n - 1)}] :
                  \A ms \in 0..(n - 1) : st[AnalysisFilename(ms)] \in StoredFiles(ms)}
        /\ analysisOrder \in Orders({AnalysisFilename(ms) : ms \in 0..(n - 1)})
        /\ clock = n - 1
        /\ timers \in IF by = "server" THEN StoreTimers(n) ELSE {<<>>}
        /\ mergedDir = EmptyDir
        /\ awaiting = EmptyBag
        /\ response = NoResponse
        /\ request = NoRequest
        /\ nSubmits = n
        /\ nComments = 0
        /\ nPurges = 0
        /\ nScriptRuns = IF by = "script" THEN 0 ELSE MaxScriptRuns
        /\ source = EmptyDir
        /\ nAppended = n
        /\ nWritten = 0
        /\ mergeFailed = FALSE
        /\ logged = NoLog

CorruptSpec == CorruptInit /\ [][MergeNext]_vars

----------------------------------------------------------------------------
\* What a merge run read, told from the history of the file it wrote.

\* The names the run read and parsed, in the order it went through them.
ReadOrder(name) ==
    SelectSeq(source[name].order, LAMBDA f : f \in source[name].read)

\* The k-th file the run read.
ReadFile(name, k) == source[name].files[ReadOrder(name)[k]]

\* The comments with a score among those the run went through: <<k, i>> is the
\* i-th comment of the k-th file read.
ScoredOccurrences(name) ==
    UNION {{<<k, i>> : i \in {j \in DOMAIN ReadFile(name, k).inputComments :
                                ReadFile(name, k).inputComments[j].id
                                    \in DOMAIN ReadFile(name, k).analysisResults}} :
           k \in 1..Len(ReadOrder(name))}

OccComment(name, o) == ReadFile(name, o[1]).inputComments[o[2]]

OccScore(name, o) == ReadFile(name, o[1]).analysisResults[OccComment(name, o).id]

\* o comes before p in the run's iteration: file by file, comment by comment
Earlier(o, p) == o[1] < p[1] \/ (o[1] = p[1] /\ o[2] < p[2])

\* The snapshot item x is the occurrence o, with its score and its file's stamp.
IsOccurrence(name, x, o) ==
    /\ x.id = OccComment(name, o).id
    /\ x.c = OccComment(name, o).c
    /\ x.isTopComments = OccComment(name, o).isTopComments
    /\ x.finalScore = OccScore(name, o)
    /\ x.analysisTimestamp = ReadFile(name, o[1]).timestamp

ServerSnapshots == {name \in DOMAIN mergedDir : source[name].by = "server"}

----------------------------------------------------------------------------
\* C1. Dedup correctness: in a snapshot of mergeAndSortResults, every content
\* that has a scored occurrence among the files read has exactly one item; the
\* item carries the highest score of these occurrences, and it is the earliest
\* occurrence in the iteration order that has this score (so a later occurrence
\* wins only with a strictly higher score, and a tie keeps the earlier one).
C1_DedupCorrect ==
    \A name \in ServerSnapshots :
        \A o \in ScoredOccurrences(name) :
            LET out == mergedDir[name].comments
                same == {p \in ScoredOccurrences(name) :
                            OccComment(name, p).c = OccComment(name, o).c}
                best == Max({OccScore(name, p) : p \in same})
                kept == CHOOSE p \in same :
                            /\ OccScore(name, p) = best
                            /\ \A q \in same : OccScore(name, q) = best =>
                                                  (q = p \/ Earlier(p, q))
            IN  /\ Cardinality({j \in DOMAIN out : out[j].c = OccComment(name, o).c}) = 1
                /\ \A j \in DOMAIN out :
                       out[j].c = OccComment(name, o).c => IsOccurrence(name, out[j], kept)

\* A server snapshot over three scored occurrences of one content, the first
\* lower than the second and the second tied with the third.
C1_Witness ==
    \E name \in ServerSnapshots :
        \E o, p, q \in ScoredOccurrences(name) :
            /\ Earlier(o, p) /\ Earlier(p, q)
            /\ OccComment(name, o).c = OccComment(name, p).c
            /\ OccComment(name, p).c = OccComment(name, q).c
            /\ OccScore(name, o) < OccScore(name, p)
            /\ OccScore(name, p) = OccScore(name, q)
            /\ ~IsOccurrence(name, mergedDir[name].comments[1], q)
            /\ IsOccurrence(name, mergedDir[name].comments[1], p)

\* C2. Rank order: in every snapshot of the Snapshot Store, each item's
\* finalScore is greater than or equal to the next item's.
C2_RankOrder ==
    \A name \in DOMAIN mergedDir :
        \A i \in 1..(Len(mergedDir[name].comments) - 1) :
            mergedDir[name].comments[i].finalScore
                >= mergedDir[name].comments[i + 1].finalScore

\* A snapshot of three items, not all of one score, made from occurrences that
\* came in ascending order of score.
C2_Witness ==
    \E name \in DOMAIN mergedDir :
        /\ Len(mergedDir[name].comments) = 3
        /\ mergedDir[name].comments[1].finalScore > mergedDir[name].comments[3].finalScore
        /\ \A o, p \in ScoredOccurrences(name) :
               Earlier(o, p) => OccScore(name, o) <= OccScore(name, p)

\* C4. Skip on missing score: a comment of a file the run read that has no
\* entry for its id in that file's analysisResults is no item of the snapshot
\* (no item has its id and text with that file's timestamp), and the comments
\* of the same file that have an entry are still merged: the text of each is in
\* the snapshot.
C4_SkipUnscored ==
    \A name \in DOMAIN mergedDir :
        \A k \in 1..Len(ReadOrder(name)) :
            LET file == ReadFile(name, k)
                out == mergedDir[name].comments
            IN  \A i \in DOMAIN file.inputComments :
                    IF file.inputComments[i].id \in DOMAIN file.analysisResults
                    THEN \E j \in DOMAIN out : out[j].c = file.inputComments[i].c
                    ELSE \A j \in DOMAIN out :
                            ~(/\ out[j].id = file.inputComments[i].id
                              /\ out[j].c = file.inputComments[i].c
                              /\ out[j].analysisTimestamp = file.timestamp)

\* A snapshot made from a file in which one comment has no score and another
\* has one, the text without a score being nowhere in the snapshot.
C4_Witness ==
    \E name \in DOMAIN mergedDir :
        \E k \in 1..Len(ReadOrder(name)) :
            LET file == ReadFile(name, k)
            IN  \E i, j \in DOMAIN file.inputComments :
                    /\ file.inputComments[i].id \notin DOMAIN file.analysisResults
                    /\ file.inputComments[j].id \in DOMAIN file.analysisResults
                    /\ \A x \in Range(mergedDir[name].comments) :
                           x.c # file.inputComments[i].c
                    /\ \E x \in Range(mergedDir[name].comments) :
                           x.c = file.inputComments[j].c

C5_NoAppendLost ==
    nPurges = 0 => Cardinality(DOMAIN analysisDir) = nAppended

\* C6. The Snapshot Store is append-only: while no purge has run, it holds as
\* many snapshots as merge runs have written.
C6_SnapshotPerRun ==
    nPurges = 0 => Cardinality(DOMAIN mergedDir) = nWritten

FilesInOrder(name, p) == [i \in DOMAIN p |-> source[name].files[p[i]]]

\* C8. Independence of the listing order: the ranked items of a snapshot of
\* mergeAndSortResults are what the merge gives for every order in which the
\* files read can be listed.
C8_OrderIndependent ==
    \A name \in ServerSnapshots :
        \A p \in Orders(source[name].read) :
            ServerSorted(FilesInOrder(name, p)) = mergedDir[name].comments

\* A step of /clear-analysis-data.
IsPurge == nPurges' = nPurges + 1

\* C9. Successful purge: a purge that answers success leaves both stores empty
\* and reports the number of files each store held before it.
C9_PurgePostcondition ==
    [][(IsPurge /\ response'.status = 200) =>
          /\ analysisDir' = EmptyDir
          /\ mergedDir' = EmptyDir
          /\ response'.body.clearedAnalysisFiles = Cardinality(DOMAIN analysisDir)
          /\ response'.body.clearedMergedFiles = Cardinality(DOMAIN mergedDir)]_vars

\* A purge has just answered success, having removed files of both stores.
C9_Witness ==
    /\ response.route = "clear"
    /\ response.status = 200
    /\ response.body.clearedAnalysisFiles >= 1
    /\ response.body.clearedMergedFiles >= 1
    /\ analysisDir = EmptyDir
    /\ mergedDir = EmptyDir

\* C10. Purge is all or nothing: a purge leaves both stores empty or both
\* stores as they were.
C10_PurgeAllOrNothing ==
    [][IsPurge =>
          \/ analysisDir' = EmptyDir /\ mergedDir' = EmptyDir
          \/ analysisDir' = analysisDir /\ mergedDir' = mergedDir]_vars

\* C11. Purge failure reporting: a purge that fails answers with the number of
\* files it removed from each store, and a purge that leaves a file behind does
\* not answer success.
C11_FailureReportsCounts ==
    [][IsPurge =>
          /\ (analysisDir' # EmptyDir \/ mergedDir' # EmptyDir) => response'.status # 200
          /\ response'.status # 200 =>
                /\ "clearedAnalysisFiles" \in DOMAIN response'.body
                /\ "clearedMergedFiles" \in DOMAIN response'.body
                /\ response'.body.clearedAnalysisFiles
                      = Cardinality(DOMAIN analysisDir \ DOMAIN analysisDir')
                /\ response'.body.clearedMergedFiles
                      = Cardinality(DOMAIN mergedDir \ DOMAIN mergedDir')]_vars

\* C12. Idempotent purge: a purge of two empty stores, the first or one that
\* follows another purge, answers success with zero for both counts and leaves
\* both stores empty, unless the listing of a directory itself throws.
C12_IdempotentPurge ==
    [][(/\ IsPurge
        /\ analysisDir = EmptyDir
        /\ mergedDir = EmptyDir
        /\ ~(response'.status = 500 /\ response'.body.details = "scandir")) =>
          /\ response' = ClearResponse(0, 0)
          /\ analysisDir' = EmptyDir
          /\ mergedDir' = EmptyDir]_vars

\* A second purge has answered success with zero counts: the first one emptied
\* the stores that a submission and its merge had filled.
C12_Witness ==
    /\ nPurges = 2
    /\ nAppended = 0
    /\ nSubmits >= 1
    /\ timers = <<>>
    /\ awaiting = EmptyBag
    /\ response = ClearResponse(0, 0)
    /\ analysisDir = EmptyDir
    /\ mergedDir = EmptyDir

\* A step that runs the merge: a timer callback of the server, or the script.
IsMergeRun == Len(timers') < Len(timers) \/ nScriptRuns' > nScriptRuns

\* No comment of the Batch Store has an entry for its id in its file's scores
\* (so also when the store has no file).
NoScoredItem ==
    \A name \in DOMAIN analysisDir :
        \A i \in DOMAIN analysisDir[name].inputComments :
            analysisDir[name].inputComments[i].id
                \notin DOMAIN analysisDir[name].analysisResults

\* C13. Empty merge is a no-op: a merge run over a Batch Store without a scored
\* item writes no snapshot and leaves the Snapshot Store as it is.
C13_EmptyMergeNoOp ==
    [][(IsMergeRun /\ NoScoredItem) => mergedDir' = mergedDir]_vars

\* The merge of a submission has run over a store whose one file has comments
\* and no score (the scorer answered with no entry), and there is no snapshot.
C13_Witness ==
    /\ nPurges = 0
    /\ nAppended = 1
    /\ Cardinality(DOMAIN analysisDir) = 1
    /\ timers = <<>>
    /\ awaiting = EmptyBag
    /\ nSubmits = 1
    /\ NoScoredItem
    /\ mergedDir = EmptyDir

\* The files a run listed whose processing failed: not read or parsed, or the
\* loop over the comments threw.
FailedFiles(name) ==
    {f \in Range(source[name].order) :
        f \notin source[name].read \/ Throws(source[name].files[f])}

\* C14. Malformed record handling: in every snapshot of mergeAndSortResults, a
\* file whose processing failed gives no item (no item carries its timestamp)
\* and is not counted in processedFiles, and every scored comment of the other
\* files has its text in the snapshot.
C14_FailedRecordSkipped ==
    \A name \in ServerSnapshots :
        /\ \A f \in FailedFiles(name) :
               \A x \in Range(mergedDir[name].comments) :
                   x.analysisTimestamp # source[name].files[f].timestamp
        /\ mergedDir[name].metadata.processedFiles
               = Len(source[name].order) - Cardinality(FailedFiles(name))
        /\ \A f \in Range(source[name].order) \ FailedFiles(name) :
               \A cm \in Range(source[name].files[f].inputComments) :
                   cm.id \in DOMAIN source[name].files[f].analysisResults
                       => \E x \in Range(mergedDir[name].comments) : x.c = cm.c

\* The faults of a request body, as the claim lists them.
FailsValidation(req) ==
    \/ "array" \notin DOMAIN req.comments
    \/ Len(req.comments.array) = 0
    \/ Len(req.comments.array) > 50
    \/ \E i \in DOMAIN req.comments.array : "id" \notin DOMAIN req.comments.array[i]
    \/ ~req.systemMessageOk
    \/ req.bestCommentsCount < 1

\* C15. Validation precedes persistence: a step that answers a request with
\* the error of a failed validation changes neither store, holds no request
\* for scoring and schedules no merge; and no request body that a step lets
\* pass validation has one of the faults.
C15_RejectedChangesNothing ==
    [][/\ (response'.route = "analyze" /\ response'.status = 400) =>
              UNCHANGED <<analysisDir, analysisOrder, mergedDir, awaiting, timers>>
       /\ request' # NoRequest => ~FailsValidation(request')
       /\ (awaiting' # awaiting /\ nSubmits' # nSubmits) => request' # NoRequest]_vars

\* A request has just been rejected for its comments, while both stores hold a
\* file and a merge is scheduled.
C15_Witness ==
    /\ response = BadRequest("Invalid comments format")
    /\ analysisDir # EmptyDir
    /\ mergedDir # EmptyDir
    /\ timers # <<>>

\* No request waits for its scores and no merge is scheduled.
Quiescent == awaiting = EmptyBag /\ timers = <<>>

\* The latest snapshot: the greatest file name of the Snapshot Store.
LatestSnapshot ==
    CHOOSE name \in DOMAIN mergedDir : \A other \in DOMAIN mergedDir : other[2] <= name[2]

\* The latest snapshot holds the merge of the records now in the Batch Store.
LatestIsMergeOfStore ==
    /\ mergedDir # EmptyDir
    /\ mergedDir[LatestSnapshot].comments
          = sortCommentsByScore(deduplicatedComments(AllMergedComments(
                [i \in DOMAIN analysisOrder |-> analysisDir[analysisOrder[i]]])))

----------------------------------------------------------------------------
\* C17. Latest snapshot selection. When the read-back of a timer callback
\* does not throw: over an empty Snapshot Store it yields not-found, and
\* otherwise the snapshot it chooses has the greatest name, is the one the
\* most recent successful merge run wrote, and the best comments it reports
\* are the first min(K, n) of the n items of that snapshot, K being the
\* bestCommentsCount of the request that set the timer.
C17_LatestSnapshot ==
    [][logged'.kind \in {"notFound", "best"} =>
        /\ logged' = NotFound <=> mergedDir' = EmptyDir
        /\ logged'.kind = "best" =>
            LET latest == logged'.latestMergedFile
                items == mergedDir'[latest].comments
                K == Head(timers).bestCommentsCount
                best == logged'.bestComments
            IN  /\ \A name \in DOMAIN mergedDir' : name[2] <= latest[2]
                /\ source'[latest].run = LastRun'
                /\ Len(best) = IF K <= Len(items) THEN K ELSE Len(items)
                /\ \A i \in DOMAIN best : best[i] = items[i]]_vars

\* A callback has found two snapshots and reported the latest, which has
\* fewer items than the request asked for.
C17_Witness ==
    /\ logged.kind = "best"
    /\ Cardinality(DOMAIN mergedDir) = 2
    /\ logged.bestCommentsCount > Len(mergedDir[logged.latestMergedFile].comments)

----------------------------------------------------------------------------
\* C18. Sentinel assignment. In every file of AI_RESPONSE_DIR the
\* analysisResults give 101 to the id of every comment submitted with
\* isTopComments true, whatever the scoring call returned.
C18_SentinelAssignment ==
    \A name \in DOMAIN analysisDir :
        LET file == analysisDir[name]
        IN  \A i \in DOMAIN file.inputComments :
                file.inputComments[i].isTopComments =>
                    /\ file.inputComments[i].id \in DOMAIN file.analysisResults
                    /\ file.analysisResults[file.inputComments[i].id] = TopCommentScore

----------------------------------------------------------------------------
\* C19. Id uniqueness within a batch. In every file of AI_RESPONSE_DIR the
\* ids of the inputComments are pairwise distinct.
C19_UniqueIds ==
    \A name \in DOMAIN analysisDir :
        LET comments == analysisDir[name].inputComments
        IN  \A i, j \in DOMAIN comments :
                comments[i].id = comments[j].id => i = j

----------------------------------------------------------------------------
\* The scored occurrences of the content c among the files a run read.
OccurrencesOf(name, c) ==
    {p \in ScoredOccurrences(name) : OccComment(name, p).c = c}

\* The occurrence of c the run met first.
FirstOccurrence(name, c) ==
    CHOOSE p \in OccurrencesOf(name, c) :
        \A q \in OccurrencesOf(name, c) : q = p \/ Earlier(p, q)

\* The occurrence of c the run kept: the first of those with the highest score.
KeptOccurrence(name, c) ==
    LET best == Max({OccScore(name, p) : p \in OccurrencesOf(name, c)})
    IN  CHOOSE p \in OccurrencesOf(name, c) :
            /\ OccScore(name, p) = best
            /\ \A q \in OccurrencesOf(name, c) :
                   OccScore(name, q) = best => (q = p \/ Earlier(p, q))

\* C20 as stated. Stable tie order: of two items of a snapshot of
\* mergeAndSortResults with equal finalScore, the one whose kept occurrence
\* the run met earlier comes first, also when a kept occurrence replaced an
\* earlier duplicate of lower score.
C20_TieOrderOfKept ==
    \A name \in ServerSnapshots :
        LET out == mergedDir[name].comments
        IN  \A i, j \in DOMAIN out :
                (i < j /\ out[i].finalScore = out[j].finalScore) =>
                    Earlier(KeptOccurrence(name, out[i].c), KeptOccurrence(name, out[j].c))

\* C20, amended. Of two items of a snapshot of mergeAndSortResults with equal
\* finalScore, the one whose content the run met first comes first: a kept
\* occurrence that replaced an earlier duplicate of lower score stands where
\* that duplicate stood.
C20_TieOrderOfFirst ==
    \A name \in ServerSnapshots :
        LET out == mergedDir[name].comments
        IN  \A i, j \in DOMAIN out :
                (i < j /\ out[i].finalScore = out[j].finalScore) =>
                    Earlier(FirstOccurrence(name, out[i].c), FirstOccurrence(name, out[j].c))

\* A snapshot of two tied items, the first of which is an occurrence that
\* replaced a duplicate of lower score and was met after the second.
C20_Witness ==
    \E name \in ServerSnapshots :
        LET out == mergedDir[name].comments
        IN  /\ Len(out) = 2
            /\ out[1].finalScore = out[2].finalScore
            /\ KeptOccurrence(name, out[1].c) # FirstOccurrence(name, out[1].c)
            /\ Earlier(KeptOccurrence(name, out[2].c), KeptOccurrence(name, out[1].c))
            /\ IsOccurrence(name, out[1], KeptOccurrence(name, out[1].c))

----------------------------------------------------------------------------
\* A step of /analyze-comments that reached the save: it answers 200.
IsSave == response'.route = "analyze" /\ response'.status = 200

\* C21. Merge is triggered after every append. A step that reaches the save
\* runs no merge itself and sets one callback, due after the write has
\* returned; a callback runs only from the queue; and every callback set is
\* run in the end, which runs the merge.
C21_MergeAfterAppend ==
    /\ [][/\ IsSave =>
                (/\ Len(timers') = Len(timers) + 1
                 /\ SubSeq(timers', 1, Len(timers)) = timers
                 /\ timers'[Len(timers')].due > clock'
                 /\ logged' = NoLog
                 /\ mergedDir' = mergedDir)
          /\ (logged' # NoLog) => (timers # <<>> /\ timers' = Tail(timers))
          /\ (mergedDir' # mergedDir) =>
                (logged' # NoLog \/ response'.route = "clear")]_vars
    /\ \A n \in 1..MaxSubmits : (Len(timers) = n) ~> (Len(timers) < n)

\* Two requests were saved, and the callbacks of both have run the merge.
C21_Witness ==
    /\ nAppended = 2
    /\ timers = <<>>
    /\ logged.kind = "best"
    /\ Cardinality(DOMAIN mergedDir) = 2

----------------------------------------------------------------------------
\* A step of /analyze-comments that reached setTimeout: it has been through
\* the write of its file.
ReachedSave == Len(timers') = Len(timers) + 1

\* C22. Append storage failure. When the write of the file of a request
\* fails, AI_RESPONSE_DIR is as it was, the request is answered 200 with its
\* scores and no error; and no other step writes the file later: the
\* directory gets a file only in the step of a request that reached the save.
C22_FailedSaveIsSilent ==
    [][/\ (ReachedSave /\ nAppended' = nAppended) =>
            (/\ analysisDir' = analysisDir
             /\ analysisOrder' = analysisOrder
             /\ mergedDir' = mergedDir
             /\ response'.route = "analyze"
             /\ response'.status = 200
             /\ DOMAIN response'.body \subseteq Ids
             /\ \A id \in DOMAIN response'.body :
                    response'.body[id] \in AIScores \cup {TopCommentScore})
       /\ (\E name \in DOMAIN analysisDir' :
                name \notin DOMAIN analysisDir \/ analysisDir'[name] # analysisDir[name])
            => (ReachedSave /\ nAppended' = nAppended + 1)]_vars

\* A request has been answered with its scores, and its file is not there.
C22_Witness ==
    /\ response.route = "analyze"
    /\ response.status = 200
    /\ DOMAIN response.body # {}
    /\ nSubmits = 1
    /\ nAppended = 0
    /\ analysisDir = EmptyDir
    /\ Len(timers) = 1

----------------------------------------------------------------------------
\* C23. Scoring failure leaves no trace. A request whose scoring call fails,
\* or answers what is no JSON, ends with 500: no file is written for it, not
\* even for its top comments, no callback is set, and both directories are
\* as they were.
C23_ScoringFailureNoTrace ==
    [][(response'.route = "analyze" /\ response'.status = 500) =>
            /\ UNCHANGED <<analysisDir, analysisOrder, mergedDir, timers, nAppended>>
            /\ \E req \in BagToSet(awaiting) : awaiting' = awaiting (-) SetToBag({req})]_vars

\* The scoring call of a request with a top comment and a regular one has
\* failed: the request is gone, there is no file and no callback.
C23_Witness ==
    /\ response.route = "analyze"
    /\ response.status = 500
    /\ nSubmits = 1
    /\ nComments = 2
    /\ awaiting = EmptyBag
    /\ analysisDir = EmptyDir
    /\ mergedDir = EmptyDir
    /\ timers = <<>>

----------------------------------------------------------------------------
\* A step of the timer callback whose merge run threw and wrote no file.
MergeRunFailed == logged' # NoLog /\ mergeFailed' /\ nWritten' = nWritten

\* C24. Merge failures are contained. When the merge run of a callback fails,
\* no response is sent, both directories are as they were, the run is not set
\* to run again, and all that later requests and runs start from (the
\* waiting requests, the other callbacks) is as it was.
C24_MergeFailureContained ==
    [][MergeRunFailed =>
            /\ response' = NoResponse
            /\ timers' = Tail(timers)
            /\ UNCHANGED <<analysisDir, analysisOrder, mergedDir, awaiting,
                           nSubmits, nComments, nPurges, source, nAppended>>]_vars

\* The run of a callback over a file with a scored comment has failed and left
\* no snapshot; the callback of a later request is waiting.
C24_Witness ==
    /\ logged # NoLog
    /\ mergeFailed
    /\ ~NoScoredItem
    /\ mergedDir = EmptyDir
    /\ Len(analysisOrder) = 2
    /\ Len(timers) = 1

----------------------------------------------------------------------------
\* C25. A merge run never changes the Batch Store. Over a run of the server's
\* callback or of the script, whether it writes a snapshot, finds nothing to
\* merge or fails, AI_RESPONSE_DIR holds the same files with the same
\* contents in the same order.
C25_MergeKeepsBatchStore ==
    [][IsMergeRun => UNCHANGED <<analysisDir, analysisOrder, nAppended>>]_vars

\* The script has written a snapshot of two files, and both are in the
\* directory as the run found them.
C25_Witness ==
    \E name \in DOMAIN mergedDir :
        /\ source[name].by = "script"
        /\ Cardinality(source[name].read) = 2
        /\ source[name].files = analysisDir
        /\ source[name].order = analysisOrder

----------------------------------------------------------------------------
\* C26. Snapshot summary consistency. In every snapshot, totalComments is the
\* number of its items, scoreRange.highest and lowest are the greatest and
\* the least finalScore among them, and processedFiles is the number of files
\* the run listed, read and went through without an error.
C26_SummaryConsistent ==
    \A name \in DOMAIN mergedDir :
        LET out == mergedDir[name].comments
            metadata == mergedDir[name].metadata
            scores == {out[i].finalScore : i \in DOMAIN out}
        IN  /\ metadata.totalComments = Len(out)
            /\ out # <<>>
            /\ metadata.scoreRange.highest = Max(scores)
            /\ metadata.scoreRange.lowest = Min(scores)
            /\ metadata.processedFiles
                  = Len(source[name].order) - Cardinality(FailedFiles(name))

\* A snapshot of items of two scores, from a run over two files of which one
\* failed.
C26_Witness ==
    \E name \in DOMAIN mergedDir :
        /\ Len(source[name].order) = 2
        /\ Cardinality(FailedFiles(name)) = 1
        /\ mergedDir[name].metadata.scoreRange.highest
              > mergedDir[name].metadata.scoreRange.lowest

----------------------------------------------------------------------------
\* C27. Snapshot provenance. Every item of a snapshot, of the server or of the
\* script, is a comment of one of the files the run read, with the id and the
\* text of that comment, the score that file has for the id, and the
\* timestamp of that same file.
C27_Provenance ==
    \A name \in DOMAIN mergedDir :
        \A j \in DOMAIN mergedDir[name].comments :
            \E o \in ScoredOccurrences(name) :
                /\ ReadOrder(name)[o[1]] \in DOMAIN source[name].files
                /\ IsOccurrence(name, mergedDir[name].comments[j], o)

\* A snapshot over two files that hold the same comment under the same id
\* with two scores: the item has the score and the timestamp of one file, and
\* the other file has another score and another timestamp.
C27_Witness ==
    \E name \in DOMAIN mergedDir :
        \E o, p \in ScoredOccurrences(name) :
            /\ o[1] # p[1]
            /\ OccComment(name, o) = OccComment(name, p)
            /\ OccScore(name, o) # OccScore(name, p)
            /\ IsOccurrence(name, mergedDir[name].comments[1], p)
            /\ ~IsOccurrence(name, mergedDir[name].comments[1], o)

----------------------------------------------------------------------------
\* The files a run read, in the order it went through them.
FilesRead(name) == [k \in 1..Len(ReadOrder(name)) |-> ReadFile(name, k)]

\* C28. The two merge implementations agree. The snapshot the script's main
\* wrote has the ranked items, and the totalComments, that mergeAndSortResults
\* gives over the same files, and the other way round.
C28_ImplementationsAgree ==
    \A name \in DOMAIN mergedDir :
        LET other == IF source[name].by = "script"
                     THEN ServerSorted(FilesRead(name))
                     ELSE ScriptSorted(FilesRead(name))
        IN  /\ mergedDir[name].comments = other
            /\ mergedDir[name].metadata.totalComments = Len(other)

----------------------------------------------------------------------------
\* The last step was a purge that ran to its end.
PurgeDone == response.route = "clear" /\ response.status = 200

\* C29. Purge resets state against in-flight work. Once a purge has run to
\* its end, no file of a request accepted before it, and no snapshot with
\* items of such a request, is in the directories afterwards. Stated for the
\* step that follows the purge: unless that step accepts a new request, it
\* leaves both directories empty (what it would write comes from a request
\* that was waiting for its scores, or from a callback that was pending, when
\* the purge ran).
C29_PurgeResetsInFlight ==
    [][(PurgeDone /\ nSubmits' = nSubmits) =>
            (analysisDir' = EmptyDir /\ mergedDir' = EmptyDir)]_vars

============================================================================
